---- MODULE Spec2Model ----
(***************************************************************************)
(* Event pipeline of the Argos tracker: ArgosTracker (queue, batch timer,  *)
(* flush, destroy, restore, unload handler), Reporter (report) and         *)
(* StorageManager (pending-events key of localStorage), and the page-view  *)
(* part of AutoCollector.                                                  *)
(*                                                                         *)
(* The tracker is single-threaded: every method body up to its first await *)
(* is one atomic action.  The part of sendEvents() after                   *)
(* `await this.reporter.report(...)` is a separate action (SendComplete).  *)
(* Methods are written as operators from a state record to a state record, *)
(* so that a method calling another (destroy -> flush -> sendEvents) is    *)
(* the composition the code performs.                                      *)
(***************************************************************************)
EXTENDS Integers, Sequences, FiniteSets, TLC

VARIABLES
  constructed,    \* the constructor has run init() (position of the constructor)
  isInitialized,  \* ArgosTracker.isInitialized
  config,         \* ArgosTracker.config (the fields the pipeline reads)
  eventQueue,     \* ArgosTracker.eventQueue
  batchTimer,     \* ArgosTracker.batchTimer: 0 is null, otherwise a timer id
  timers,         \* pending setTimeout timers of the event loop
  inflight,       \* reporter.report() calls of sendEvents awaiting their outcome
  handed,         \* per event: how many sendEvents batches have contained it
  delivered,      \* events of a sendEvents batch whose report came back true
  ignored,        \* the last step logged 'Tracker not initialized, event ignored'
  store,          \* localStorage: the three keys, and the operations that throw
  nextId,         \* identity of the next accepted event
  teardowns,      \* number of unload signals handled so far
  now,            \* Date.now()
  href,           \* window.location.href
  sessionId,      \* StorageManager.sessionId
  userId,         \* StorageManager.userId, NoUser when undefined
  uuids,          \* how many identifiers generateUUID has produced
  lastPageViewUrl,   \* AutoCollector.lastPageViewUrl
  lastPageViewTime,  \* AutoCollector.lastPageViewTime
  arg,            \* the argument of the one call a pure-function run examines
  result          \* what that call returned, NoResult before it

vars == <<constructed, isInitialized, config, eventQueue, batchTimer, timers,
          inflight, handed, delivered, ignored, store, nextId, teardowns,
          now, href, sessionId, userId, uuids, lastPageViewUrl,
          lastPageViewTime, arg, result>>

-----------------------------------------------------------------------------
(* Bounds of the model *)

MaxEvents == 3       \* events that exist in one behaviour (restored + accepted)
MaxOverflow == 2     \* events in the durable overflow when the page loads
MaxTicks == 3        \* steps the clock advances in one behaviour
TickMs == 50         \* milliseconds the clock advances in one step
MaxHistoryTimers == 1  \* history-change callbacks pending at once
MaxBatch == 2        \* events of the batch a Reporter call is handed
MaxRenewals == 1     \* renewSession() calls in one behaviour
MaxReloads == 1      \* times the page is loaded again in one behaviour
MaxRequests == 2     \* fetch calls the page makes in one behaviour

-----------------------------------------------------------------------------
(* Constants of the program *)

IMMEDIATE == "immediate"
BATCH == "batch"
BEACON == "beacon"
ReportMethod == {IMMEDIATE, BATCH, BEACON}

NoTimer == 0                 \* batchTimer: number | null = null
DefaultBatchSize == 10       \* this.config.batchSize || 10

BatchSizes == {2, 3}         \* configured batch sizes explored

\* handleBeforeUnload listens to two signals, beforeunload and pagehide; each
\* fires at most once while the page unloads.
UnloadSignals == 2

PAGE_VIEW == "page_view"
CUSTOM == "custom"

\* DEFAULT_CONFIG.autoTrackPageView, the setting the trackers explored run with.
AutoTrackPageView == TRUE

\* AutoCollector.trackPageView skips a repeat of the same URL closer than this.
DedupWindowMs == 100

\* Date.now() when the page loads, and the URLs the page visits.
PageLoadTime == 1000
Urls == {"/a", "/b"}
StartUrl == "/a"

-----------------------------------------------------------------------------
(* localStorage and StorageManager *)

\* A localStorage value is <<>> when the key is absent (getItem gives null)
\* and <<str>> when it holds the string str.
Absent == <<>>

\* A JavaScript object is a function from its property names to their
\* values; a property that is not there reads as undefined.
Undefined == "undefined"

Get(obj, name) == IF name \in DOMAIN obj THEN obj[name] ELSE Undefined

\* A property value that refers back to an object holding it.
Circular == "[Circular]"

\* The events one of whose custom properties holds a reference cycle.
HasCycle(events) ==
  \E i \in DOMAIN events :
    /\ "properties" \in DOMAIN events[i]
    /\ \E n \in DOMAIN events[i].properties : events[i].properties[n] = Circular

\* The string '{}'.
FallbackJson == [text |-> "{}"]

\* JSON.parse('{}'): an object with no own property.  It is no array: it has
\* no length and cannot be spread.  Written as a tuple around a marker so
\* that it compares with the event lists the same key may hold.
EmptyObject == <<[object |-> "{}"]>>

IsArray(value) == value # EmptyObject

\* JSON.stringify of a value: a string, kept as the value it parses back to.
\* JSON.stringify throws on a value that holds a reference cycle (cyclic says
\* whether obj does), and the catch block answers '{}'.
safeStringify(obj, cyclic) == IF cyclic THEN FallbackJson ELSE [json |-> obj]

safeParse(str, defaultValue) ==
  IF "json" \in DOMAIN str THEN str.json
  ELSE IF str = FallbackJson THEN EmptyObject
  ELSE defaultValue

\* st.faults holds the operations of localStorage that throw at present
\* (storage disabled, quota exceeded); the catch blocks turn a throw into
\* null for a read and into nothing for a write.
getItem(st, key) == IF "getItem" \in st.faults THEN Absent ELSE st[key]

setItem(st, key, value) ==
  IF "setItem" \in st.faults THEN st ELSE [st EXCEPT ![key] = <<value>>]

removeItem(st, key) ==
  IF "removeItem" \in st.faults THEN st ELSE [st EXCEPT ![key] = Absent]

SESSION_ID == "argos_session_id"
USER_ID == "argos_user_id"
PENDING_EVENTS == "argos_pending_events"

\* [...value]: the elements of an array; of an object without length, what
\* the lowered spread makes of it.
Spread(value) == IF IsArray(value) THEN value ELSE <<>>

getPendingEvents(st) ==
  LET eventsStr == getItem(st, PENDING_EVENTS)
  IN  IF eventsStr # Absent THEN safeParse(eventsStr[1], <<>>) ELSE <<>>

\* Variant: the write replaces the stored sequence instead of extending it.
savePendingEvents_overwrite(st, events) ==
  setItem(st, PENDING_EVENTS, safeStringify(events, HasCycle(events)))

savePendingEvents(st, events) ==
  LET existingEvents == getPendingEvents(st)
      allEvents == Spread(existingEvents) \o events
  IN  setItem(st, PENDING_EVENTS, safeStringify(allEvents, HasCycle(allEvents)))

clearPendingEvents(st) == removeItem(st, PENDING_EVENTS)

\* removePendingEvents(count): events.slice(count) of a stored array, for a
\* count that is not negative.
removePendingEvents(st, count) ==
  LET events == getPendingEvents(st)
      remainingEvents == SubSeq(events, count + 1, Len(events))
  IN  IF Len(remainingEvents) > 0
      THEN setItem(st, PENDING_EVENTS,
                   safeStringify(remainingEvents, HasCycle(remainingEvents)))
      ELSE clearPendingEvents(st)

-----------------------------------------------------------------------------
(* Reporter.formatPayload: the request body of a batch *)

AppId == "test-app"

\* Variant: a property the target already has keeps the target's value.
ObjectAssign_keepTarget(target, source) ==
  [n \in DOMAIN target \cup DOMAIN source |->
     IF n \in DOMAIN target THEN target[n] ELSE source[n]]

\* Object.assign(target, source): every own property of source, over target's.
ObjectAssign(target, source) ==
  [n \in DOMAIN target \cup DOMAIN source |->
     IF n \in DOMAIN source THEN source[n] ELSE target[n]]

\* JSON.stringify leaves out the properties whose value is undefined.
Defined(obj) == [n \in {m \in DOMAIN obj : obj[m] # Undefined} |-> obj[n]]

\* The body of events.map(...) in formatPayload.
formattedEvent(event) ==
  LET formattedEvent ==
        [event_name |-> Get(event, "eventName"),
         user_id    |-> Get(event, "userId"),
         session_id |-> Get(event, "sessionId"),
         timestamp  |-> Get(event, "timestamp"),
         app_id     |-> AppId,
         platform   |-> IF Get(event, "deviceType") # Undefined
                        THEN event.deviceType ELSE "desktop",
         user_agent |-> Get(event, "userAgent"),
         page_url   |-> Get(event, "pageUrl")]
  IN  IF "properties" \in DOMAIN event /\ DOMAIN event.properties # {}
      THEN ObjectAssign(formattedEvent, event.properties)
      ELSE formattedEvent

formatPayload(events) ==
  LET payload == [events |-> [i \in DOMAIN events |-> Defined(formattedEvent(events[i]))]]
  IN  safeStringify(payload, HasCycle(events))

-----------------------------------------------------------------------------
(* Reporter.report and its two transports.  env is what the browser does   *)
(* with the call: whether navigator.sendBeacon and AbortController exist,  *)
(* what sendBeacon answers, how the fetch settles.  A call ends either by  *)
(* returning a value or by throwing (for an async function: by a promise   *)
(* that resolves or rejects).                                              *)

Return(value) == [raised |-> FALSE, value |-> value]

Throw == [raised |-> TRUE, value |-> FALSE]

\* Response.ok
ok(status) == status >= 200 /\ status <= 299

DefaultTimeout == 10000

\* Variant: any response counts as success.
sendFetch_anyResponse(events, env) ==
  IF ~env.hasAbortController THEN Throw
  ELSE IF env.fetch.settles = "response" THEN Return(TRUE)
  ELSE Return(FALSE)

sendFetch(events, env) ==
  IF ~env.hasAbortController THEN Throw
  ELSE IF env.fetch.settles = "response" /\ env.fetch.after < DefaultTimeout
       THEN IF ok(env.fetch.status) THEN Return(TRUE) ELSE Return(FALSE)
       ELSE Return(FALSE)

sendBeacon(events, env) ==
  IF ~env.hasSendBeacon
  THEN LET r == sendFetch(events, env)
       IN  IF r.raised THEN Return(FALSE) ELSE r
  ELSE IF env.beacon = "throws" THEN Return(FALSE)
  ELSE Return(env.beacon = "accepted")

report(events, reportMethod, env) ==
  IF Len(events) = 0 THEN Return(TRUE)
  ELSE LET r == IF reportMethod = BEACON THEN sendBeacon(events, env)
                ELSE sendFetch(events, env)
       IN  IF r.raised THEN Return(FALSE) ELSE r

\* What the collecting server reads: the events of the body it parses.
WireRecords(body) ==
  IF "json" \in DOMAIN body THEN body.json.events ELSE <<>>

-----------------------------------------------------------------------------
(* The state as one record, for the method operators.  The record has one   *)
(* field that is no variable: beaconReport, the report() calls a method     *)
(* makes through a temporary Reporter, an output of the method that the     *)
(* tracker keeps no trace of.  Two more fields are no variables: raised,    *)
(* whether the method ended by throwing (an async method: by a rejected     *)
(* promise), and strictSpread, whether the build keeps the array spread of  *)
(* the source (which throws on a value that is not iterable) or lowers it   *)
(* to a concat helper (which takes an object without length as empty).      *)

Cur ==
  [constructed |-> constructed, isInitialized |-> isInitialized,
   config |-> config, eventQueue |-> eventQueue, batchTimer |-> batchTimer,
   timers |-> timers, inflight |-> inflight, handed |-> handed,
   delivered |-> delivered, ignored |-> FALSE, store |-> store,
   nextId |-> nextId, teardowns |-> teardowns, beaconReport |-> <<>>,
   now |-> now, href |-> href, sessionId |-> sessionId, userId |-> userId,
   uuids |-> uuids, raised |-> FALSE, strictSpread |-> TRUE,
   lastPageViewUrl |-> lastPageViewUrl, lastPageViewTime |-> lastPageViewTime]

Becomes(s) ==
  /\ constructed' = s.constructed
  /\ isInitialized' = s.isInitialized
  /\ config' = s.config
  /\ eventQueue' = s.eventQueue
  /\ batchTimer' = s.batchTimer
  /\ timers' = s.timers
  /\ inflight' = s.inflight
  /\ handed' = s.handed
  /\ delivered' = s.delivered
  /\ ignored' = s.ignored
  /\ store' = s.store
  /\ nextId' = s.nextId
  /\ teardowns' = s.teardowns
  /\ now' = s.now
  /\ href' = s.href
  /\ sessionId' = s.sessionId
  /\ userId' = s.userId
  /\ uuids' = s.uuids
  /\ lastPageViewUrl' = s.lastPageViewUrl
  /\ lastPageViewTime' = s.lastPageViewTime
  /\ UNCHANGED <<arg, result>>

\* The same step of the tracker, next to a step of the page around it.
BecomesTracker(s) ==
  /\ constructed' = s.constructed
  /\ isInitialized' = s.isInitialized
  /\ config' = s.config
  /\ eventQueue' = s.eventQueue
  /\ batchTimer' = s.batchTimer
  /\ timers' = s.timers
  /\ inflight' = s.inflight
  /\ handed' = s.handed
  /\ delivered' = s.delivered
  /\ ignored' = s.ignored
  /\ store' = s.store
  /\ nextId' = s.nextId
  /\ teardowns' = s.teardowns
  /\ now' = s.now
  /\ href' = s.href
  /\ sessionId' = s.sessionId
  /\ userId' = s.userId
  /\ uuids' = s.uuids
  /\ lastPageViewUrl' = s.lastPageViewUrl
  /\ lastPageViewTime' = s.lastPageViewTime

-----------------------------------------------------------------------------
(* StorageManager, on the state record *)

NoUser == 0

NoSession == 0

\* The session identifier an earlier page load left in the store.
OldSessionId == 1

\* generateUUID(): 122 random bits, taken as an identifier no earlier call
\* and no earlier page load has produced.
generateUUID(s) == OldSessionId + 1 + s.uuids

\* Variant: a new identifier is generated whatever the store holds.
getOrCreateSessionId_always(s) ==
  [s EXCEPT !.sessionId = generateUUID(s),
            !.uuids = @ + 1,
            !.store = setItem(@, SESSION_ID, generateUUID(s))]

getOrCreateSessionId(s) ==
  LET stored == getItem(s.store, SESSION_ID)
  IN  IF stored # Absent
      THEN [s EXCEPT !.sessionId = stored[1]]
      ELSE [s EXCEPT !.sessionId = generateUUID(s),
                     !.uuids = @ + 1,
                     !.store = setItem(@, SESSION_ID, generateUUID(s))]

\* getUserId(): the cached value, else the stored one, which it caches.
storage_getUserId(s) ==
  IF s.userId # NoUser
  THEN s
  ELSE LET stored == getItem(s.store, USER_ID)
       IN  IF stored # Absent THEN [s EXCEPT !.userId = stored[1]] ELSE s

\* new StorageManager()
StorageManager(s) ==
  storage_getUserId([getOrCreateSessionId(s) EXCEPT !.userId = NoUser])

setUserId(s, id) ==
  [s EXCEPT !.userId = id, !.store = setItem(@, USER_ID, id)]

\* Variant: the stored user id is left in place.
clearUserId_memoryOnly(s) ==
  [s EXCEPT !.userId = NoUser]

clearUserId(s) ==
  [s EXCEPT !.userId = NoUser, !.store = removeItem(@, USER_ID)]

\* Variant: the new identifier is the one in use.
renewSessionId_same(s) ==
  [s EXCEPT !.store = setItem(@, SESSION_ID, s.sessionId)]

\* Variant: the events in the queue are moved to the new session.
renewSessionId_restamp(s) ==
  [s EXCEPT !.sessionId = generateUUID(s),
            !.uuids = @ + 1,
            !.store = setItem(@, SESSION_ID, generateUUID(s)),
            !.eventQueue = [i \in DOMAIN @ |->
                              [@[i] EXCEPT !.sessionId = generateUUID(s)]]]

renewSessionId(s) ==
  [s EXCEPT !.sessionId = generateUUID(s),
            !.uuids = @ + 1,
            !.store = setItem(@, SESSION_ID, generateUUID(s))]

\* clear(): every key is removed, then the fields are reset.
clear(s) ==
  [s EXCEPT !.store = removeItem(removeItem(removeItem(@, SESSION_ID), USER_ID),
                                 PENDING_EVENTS),
            !.sessionId = generateUUID(s),
            !.uuids = @ + 1,
            !.userId = NoUser]

\* this.storage.savePendingEvents(events) as a method of the tracker calls
\* it: the spread of a stored value that is no array throws in a build that
\* keeps the spread.
storage_savePendingEvents(s, events) ==
  IF ~IsArray(getPendingEvents(s.store)) /\ s.strictSpread
  THEN [s EXCEPT !.raised = TRUE]
  ELSE [s EXCEPT !.store = savePendingEvents(@, events)]

-----------------------------------------------------------------------------
(* Timers of the event loop *)

TimerIds(s) == {t.id : t \in s.timers}

\* window.setTimeout returns a handle no pending timer has.
NewTimerId(s) ==
  CHOOSE i \in 1..(Cardinality(s.timers) + 1) :
    /\ i \notin TimerIds(s)
    /\ \A j \in 1..(i - 1) : j \in TimerIds(s)

setTimeout(s, kind) ==
  [s EXCEPT !.timers = @ \cup {[id |-> NewTimerId(s), kind |-> kind]}]

clearTimeout(s, id) ==
  [s EXCEPT !.timers = {t \in @ : t.id # id}]

-----------------------------------------------------------------------------
(* Reporter *)

\* Reporter.report(events) for a non-empty batch: the transport it chooses.
ReportVia(reportMethod) ==
  IF reportMethod = BEACON THEN "beacon" ELSE "fetch"

-----------------------------------------------------------------------------
(* ArgosTracker *)

Ids(events) == {events[i].id : i \in DOMAIN events}

\* Variant: the batch is copied but the queue is not replaced.
sendEvents_keepQueue(s) ==
  IF Len(s.eventQueue) = 0
  THEN s
  ELSE LET eventsToSend == s.eventQueue
       IN  [s EXCEPT
              !.inflight = @ \cup {[batch |-> eventsToSend,
                                    via |-> ReportVia(s.config.reportMethod)]},
              !.handed = [i \in DOMAIN @ |->
                            IF i \in Ids(eventsToSend) THEN @[i] + 1 ELSE @[i]]]

\* Variant: no early return on an empty queue.
sendEvents_noEmptyCheck(s) ==
  LET eventsToSend == s.eventQueue
  IN  [s EXCEPT
         !.eventQueue = <<>>,
         !.inflight = @ \cup {[batch |-> eventsToSend,
                               via |-> ReportVia(s.config.reportMethod)]},
         !.handed = [i \in DOMAIN @ |->
                       IF i \in Ids(eventsToSend) THEN @[i] + 1 ELSE @[i]]]

\* sendEvents(), up to the await: the queue is swapped for an empty one and
\* the swapped-out batch is handed to reporter.report().
sendEvents(s) ==
  IF Len(s.eventQueue) = 0
  THEN s
  ELSE LET eventsToSend == s.eventQueue
       IN  [s EXCEPT
              !.eventQueue = <<>>,
              !.inflight = @ \cup {[batch |-> eventsToSend,
                                    via |-> ReportVia(s.config.reportMethod)]},
              !.handed = [i \in DOMAIN @ |->
                            IF i \in Ids(eventsToSend) THEN @[i] + 1 ELSE @[i]]]

\* Variant: a failed batch is not written to the store.
sendEventsDone_drop(s, f, success) ==
  LET s1 == [s EXCEPT !.inflight = @ \ {f}]
  IN  IF ~success
      THEN s1
      ELSE [s1 EXCEPT !.delivered = @ \cup Ids(f.batch)]

\* sendEvents(), after the await: the outcome of the call f has arrived.
\* A throw of savePendingEvents in the try block enters the catch block,
\* which calls it again with the same outcome.
sendEventsDone(s, f, success) ==
  LET s1 == [s EXCEPT !.inflight = @ \ {f}]
  IN  IF ~success
      THEN storage_savePendingEvents(s1, f.batch)
      ELSE [s1 EXCEPT !.delivered = @ \cup Ids(f.batch)]

\* Variant: no early return when a timer is already armed.
scheduleBatchSend_noGuard(s) ==
  [setTimeout(s, "batch") EXCEPT !.batchTimer = NewTimerId(s)]

scheduleBatchSend(s) ==
  IF s.batchTimer # NoTimer
  THEN s
  ELSE [setTimeout(s, "batch") EXCEPT !.batchTimer = NewTimerId(s)]

\* Variant: the event is put at the head of the queue.
addToQueue_unshift(s, event) ==
  LET s1 == [s EXCEPT !.eventQueue = <<event>> \o @]
      batchSize == IF s1.config.batchSize # 0 THEN s1.config.batchSize
                   ELSE DefaultBatchSize
  IN  IF s1.config.reportMethod = IMMEDIATE
      THEN sendEvents(s1)
      ELSE IF s1.config.reportMethod = BATCH
           THEN IF Len(s1.eventQueue) >= batchSize
                THEN sendEvents(s1)
                ELSE scheduleBatchSend(s1)
           ELSE s1

\* Variant: the size test is > instead of >=.
addToQueue_gt(s, event) ==
  LET s1 == [s EXCEPT !.eventQueue = Append(@, event)]
      batchSize == IF s1.config.batchSize # 0 THEN s1.config.batchSize
                   ELSE DefaultBatchSize
  IN  IF s1.config.reportMethod = IMMEDIATE
      THEN sendEvents(s1)
      ELSE IF s1.config.reportMethod = BATCH
           THEN IF Len(s1.eventQueue) > batchSize
                THEN sendEvents(s1)
                ELSE scheduleBatchSend(s1)
           ELSE s1

\* Variant: the batch branch sends without looking at the size.
addToQueue_eager(s, event) ==
  LET s1 == [s EXCEPT !.eventQueue = Append(@, event)]
  IN  IF s1.config.reportMethod = IMMEDIATE
      THEN sendEvents(s1)
      ELSE IF s1.config.reportMethod = BATCH
           THEN sendEvents(s1)
           ELSE s1

\* Variant: the immediate branch is missing, immediate is treated as batch.
addToQueue_noImmediate(s, event) ==
  LET s1 == [s EXCEPT !.eventQueue = Append(@, event)]
      batchSize == IF s1.config.batchSize # 0 THEN s1.config.batchSize
                   ELSE DefaultBatchSize
  IN  IF s1.config.reportMethod \in {IMMEDIATE, BATCH}
      THEN IF Len(s1.eventQueue) >= batchSize
           THEN sendEvents(s1)
           ELSE scheduleBatchSend(s1)
      ELSE s1

addToQueue(s, event) ==
  LET s1 == [s EXCEPT !.eventQueue = Append(@, event)]
      batchSize == IF s1.config.batchSize # 0 THEN s1.config.batchSize
                   ELSE DefaultBatchSize
  IN  IF s1.config.reportMethod = IMMEDIATE
      THEN sendEvents(s1)
      ELSE IF s1.config.reportMethod = BATCH
           THEN IF Len(s1.eventQueue) >= batchSize
                THEN sendEvents(s1)
                ELSE scheduleBatchSend(s1)
           ELSE s1

\* The TrackEvent that trackEvent completes from a partial event.  id is the
\* identity of the object; the fields kept are those the pipeline properties
\* read.
FullEvent(s, event) ==
  LET fullEvent ==
        [id |-> s.nextId,
         eventType |-> event.eventType,
         timestamp |-> IF "timestamp" \in DOMAIN event /\ event.timestamp # 0
                       THEN event.timestamp ELSE s.now,
         sessionId |-> IF "sessionId" \in DOMAIN event
                       THEN event.sessionId ELSE s.sessionId,
         userId |-> IF "userId" \in DOMAIN event
                    THEN event.userId ELSE s.userId,
         pageUrl |-> IF "pageUrl" \in DOMAIN event
                     THEN event.pageUrl ELSE s.href]
  IN  IF "properties" \in DOMAIN event
      THEN [n \in DOMAIN fullEvent \cup {"properties"} |->
              IF n = "properties" THEN event.properties ELSE fullEvent[n]]
      ELSE fullEvent

\* Variant: no isInitialized test.
trackEvent_noGuard(s, event) ==
  LET fullEvent == FullEvent(s, event)
  IN  addToQueue([s EXCEPT !.nextId = @ + 1], fullEvent)

trackEvent(s, event) ==
  IF ~s.isInitialized
  THEN [s EXCEPT !.ignored = TRUE]
  ELSE LET s1 == storage_getUserId(s)
           fullEvent == FullEvent(s1, event)
       IN  addToQueue([s1 EXCEPT !.nextId = @ + 1], fullEvent)

\* track(eventName)
track(s) == trackEvent(s, [eventType |-> CUSTOM])

\* track(eventName, properties)
trackProperties(s, properties) ==
  trackEvent(s, [eventType |-> CUSTOM, properties |-> properties])

\* setUser(userInfo)
setUser(s, userInfo) ==
  trackEvent(setUserId(s, userInfo.userId), [eventType |-> CUSTOM])

\* clearUser()
clearUser(s) ==
  trackEvent(clearUserId(s), [eventType |-> CUSTOM])

\* renewSession()
renewSession(s) == renewSessionId(s)

\* ArgosTracker.trackPageView(): the manual page view.
trackPageView(s) == trackEvent(s, [eventType |-> PAGE_VIEW])

handleAutoEvent(s, event) == trackEvent(s, event)

\* Variant: a discarded page view moves the time of the pointer.
collector_trackPageView_extend(s) ==
  LET currentUrl == s.href
      currentTime == s.now
  IN  IF /\ s.lastPageViewUrl = currentUrl
         /\ currentTime - s.lastPageViewTime < DedupWindowMs
      THEN [s EXCEPT !.lastPageViewTime = currentTime]
      ELSE handleAutoEvent([s EXCEPT !.lastPageViewUrl = currentUrl,
                                     !.lastPageViewTime = currentTime],
                           [eventType |-> PAGE_VIEW, timestamp |-> currentTime])

\* AutoCollector.trackPageView(): the automatic page view, with its
\* most-recent pointer.
collector_trackPageView(s) ==
  LET currentUrl == s.href
      currentTime == s.now
  IN  IF /\ s.lastPageViewUrl = currentUrl
         /\ currentTime - s.lastPageViewTime < DedupWindowMs
      THEN s
      ELSE handleAutoEvent([s EXCEPT !.lastPageViewUrl = currentUrl,
                                     !.lastPageViewTime = currentTime],
                           [eventType |-> PAGE_VIEW, timestamp |-> currentTime])

\* AutoCollector.start(options), the page-view part: the first page view,
\* then the hooks on history.pushState and history.replaceState.
collector_start(s, options) ==
  IF options.autoTrackPageView THEN collector_trackPageView(s) ELSE s

\* handleHistoryChange, run by the hooked pushState and replaceState.
handleHistoryChange(s) == setTimeout(s, "history")

\* The callback handleHistoryChange defers.
historyTimerCallback(s) == collector_trackPageView(s)

flush(s) ==
  LET s1 == IF s.batchTimer # NoTimer
            THEN [clearTimeout(s, s.batchTimer) EXCEPT !.batchTimer = NoTimer]
            ELSE s
  IN  sendEvents(s1)

updateConfig(s, newConfig) ==
  LET s1 == [s EXCEPT !.config = [f \in DOMAIN @ |->
                          IF f \in DOMAIN newConfig THEN newConfig[f] ELSE @[f]]]
  IN  IF "userId" \in DOMAIN newConfig
      THEN setUserId(s1, newConfig.userId)
      ELSE s1

destroy(s) ==
  LET s1 == IF s.batchTimer # NoTimer
            THEN [clearTimeout(s, s.batchTimer) EXCEPT !.batchTimer = NoTimer]
            ELSE s
      s2 == flush(s1)
  IN  [s2 EXCEPT !.isInitialized = FALSE]

\* Variant: the restored events stay in the store.
restorePendingEvents_keepStore(s) ==
  LET pendingEvents == getPendingEvents(s.store)
  IN  IF IsArray(pendingEvents) /\ Len(pendingEvents) > 0
      THEN setTimeout([s EXCEPT !.eventQueue = @ \o pendingEvents], "restore")
      ELSE s

\* Variant: the restored events are sent at once instead of after a delay.
restorePendingEvents_sendNow(s) ==
  LET pendingEvents == getPendingEvents(s.store)
  IN  IF IsArray(pendingEvents) /\ Len(pendingEvents) > 0
      THEN sendEvents([s EXCEPT !.eventQueue = @ \o pendingEvents,
                                !.store = clearPendingEvents(@)])
      ELSE s

restorePendingEvents(s) ==
  LET pendingEvents == getPendingEvents(s.store)
  IN  IF IsArray(pendingEvents) /\ Len(pendingEvents) > 0
      THEN setTimeout([s EXCEPT !.eventQueue = @ \o pendingEvents,
                                !.store = clearPendingEvents(@)],
                      "restore")
      ELSE s

\* init(): collector.start() offers the first page view through
\* handleAutoEvent -> trackEvent when config.autoTrackPageView is on (a field
\* of the constructor's config that nothing reads after init).
init(s, autoTrackPageView) ==
  IF s.isInitialized
  THEN s
  ELSE LET s0 == IF "userId" \in DOMAIN s.config
                 THEN setUserId(s, s.config.userId)
                 ELSE s
           s1 == collector_start(s0, [autoTrackPageView |-> autoTrackPageView])
           s2 == restorePendingEvents(s1)
       IN  [s2 EXCEPT !.isInitialized = TRUE]

\* The callback of the timer scheduleBatchSend arms.
batchTimerCallback(s) ==
  [sendEvents(s) EXCEPT !.batchTimer = NoTimer]

\* The callback of the timer restorePendingEvents arms.
restoreTimerCallback(s) == sendEvents(s)

\* Variant: the queue is written to the store only when the beacon failed.
handleBeforeUnload_onFailure(s, beaconOk) ==
  IF Len(s.eventQueue) > 0
  THEN LET s1 == [s EXCEPT !.beaconReport =
                              <<[batch |-> s.eventQueue, via |-> ReportVia(BEACON)]>>]
       IN  IF beaconOk THEN s1
           ELSE [s1 EXCEPT !.store = savePendingEvents(@, s.eventQueue)]
  ELSE s

\* handleBeforeUnload, the listener of beforeunload and pagehide: a beacon
\* report of a copy of the queue by a temporary Reporter, whose outcome
\* (beaconOk) the handler drops, and a write of the queue to the store.
handleBeforeUnload(s, beaconOk) ==
  IF Len(s.eventQueue) > 0
  THEN storage_savePendingEvents(
         [s EXCEPT !.beaconReport =
                      <<[batch |-> s.eventQueue, via |-> ReportVia(BEACON)]>>],
         s.eventQueue)
  ELSE s

-----------------------------------------------------------------------------
(* Initial states: the fields as declared, over a store left by an earlier *)
(* page load                                                               *)

\* Events an earlier page load of the same session left in the store, each
\* with its own timestamp before this page load.
OldEvents(n) ==
  [i \in 1..n |-> [id |-> i, eventType |-> CUSTOM, timestamp |-> i,
                   sessionId |-> OldSessionId, userId |-> NoUser,
                   pageUrl |-> StartUrl]]

\* The store of a first visit.
EmptyStore ==
  [argos_pending_events |-> Absent, argos_session_id |-> Absent,
   argos_user_id |-> Absent, faults |-> {}]

InitStores ==
  {EmptyStore} \cup
  {[EmptyStore EXCEPT !.argos_pending_events = <<safeStringify(OldEvents(n), FALSE)>>,
                      !.argos_session_id = <<OldSessionId>>] : n \in 1..MaxOverflow}

Configs == [reportMethod : ReportMethod, batchSize : BatchSizes]

\* No call is under examination, and none has returned.
NoCall == <<>>

NoResult == [done |-> FALSE]

Returned(value) == [done |-> TRUE, value |-> value]

\* The fields of a page that has loaded the script, but for the
\* configuration it will pass.
InitPage ==
  /\ constructed = FALSE
  /\ isInitialized = FALSE
  /\ eventQueue = <<>>
  /\ batchTimer = NoTimer
  /\ timers = {}
  /\ inflight = {}
  /\ handed = [i \in 1..(MaxEvents + 1) |-> 0]
  /\ delivered = {}
  /\ ignored = FALSE
  /\ store \in InitStores
  /\ nextId = Len(getPendingEvents(store)) + 1
  /\ teardowns = 0
  /\ now = PageLoadTime
  /\ href = StartUrl
  /\ sessionId = NoSession
  /\ userId = NoUser
  /\ uuids = 0
  /\ lastPageViewUrl = ""
  /\ lastPageViewTime = 0

\* The fields of a page that has loaded the script.
InitTracker ==
  /\ config \in Configs
  /\ InitPage

Init ==
  /\ InitTracker
  /\ arg = NoCall
  /\ result = NoResult

-----------------------------------------------------------------------------
(* Actions *)

\* new ArgosTracker(config): the constructor runs init().
Construct ==
  /\ ~constructed
  /\ Becomes([init(StorageManager(Cur), AutoTrackPageView)
                EXCEPT !.constructed = TRUE])

\* track(eventName, properties)
Track ==
  /\ constructed
  /\ nextId <= MaxEvents
  /\ Becomes(track(Cur))

Flush ==
  /\ constructed
  /\ Becomes(flush(Cur))

UpdateConfig ==
  /\ constructed
  /\ \E m \in ReportMethod :
       Becomes(updateConfig(Cur, [reportMethod |-> m]))

Destroy ==
  /\ constructed
  /\ Becomes(destroy(Cur))

BatchTimerFires ==
  \E t \in timers :
    /\ t.kind = "batch"
    /\ Becomes(batchTimerCallback(clearTimeout(Cur, t.id)))

RestoreTimerFires ==
  \E t \in timers :
    /\ t.kind = "restore"
    /\ Becomes(restoreTimerCallback(clearTimeout(Cur, t.id)))

SendComplete ==
  \E f \in inflight, success \in BOOLEAN :
    Becomes(sendEventsDone(Cur, f, success))

Teardown ==
  /\ constructed
  /\ teardowns < UnloadSignals
  /\ \E beaconOk \in BOOLEAN :
       Becomes([handleBeforeUnload(Cur, beaconOk) EXCEPT !.teardowns = @ + 1])

Next ==
  \/ Construct
  \/ Track
  \/ Flush
  \/ UpdateConfig
  \/ Destroy
  \/ BatchTimerFires
  \/ RestoreTimerFires
  \/ SendComplete
  \/ Teardown

Spec == Init /\ [][Next]_vars

\* The event loop runs the callback of every pending timer, and every
\* report() settles: fetch answers, fails or is aborted at config.timeout.
FairSpec ==
  /\ Spec
  /\ WF_vars(BatchTimerFires)
  /\ WF_vars(RestoreTimerFires)
  /\ WF_vars(SendComplete)

\* trackPageView(): the manual page view.
TrackPageView ==
  /\ constructed
  /\ nextId <= MaxEvents
  /\ Becomes(trackPageView(Cur))

\* The clock advances.
Tick ==
  /\ now < PageLoadTime + MaxTicks * TickMs
  /\ Becomes([Cur EXCEPT !.now = @ + TickMs])

\* The page calls history.pushState or history.replaceState with the URL u
\* (the current one included).  The collector's hooks are in place from
\* init() to destroy(), and then the call runs handleHistoryChange.
HistoryChange ==
  /\ constructed
  /\ Cardinality({t \in timers : t.kind = "history"}) < MaxHistoryTimers
  /\ \E u \in Urls :
       Becomes(IF isInitialized
               THEN handleHistoryChange([Cur EXCEPT !.href = u])
               ELSE [Cur EXCEPT !.href = u])

HistoryTimerFires ==
  \E t \in timers :
    /\ t.kind = "history"
    /\ nextId <= MaxEvents
    /\ Becomes(historyTimerCallback(clearTimeout(Cur, t.id)))

\* Automatic page views only: the same page, whose only events are the page
\* views of the collector.
NextDedup ==
  \/ Construct
  \/ HistoryChange
  \/ HistoryTimerFires
  \/ Tick

\* Events in time: a tracker in beacon mode on a page without pending
\* events, with a clock and a changing URL.
InitPageViews ==
  /\ Init
  /\ config.reportMethod = BEACON
  /\ getItem(store, PENDING_EVENTS) = Absent

NextPageViews ==
  \/ Construct
  \/ Track
  \/ TrackPageView
  \/ HistoryChange
  \/ HistoryTimerFires
  \/ Tick
  \/ Flush
  \/ SendComplete

SpecPageViews == InitPageViews /\ [][NextPageViews]_vars

SpecDedup == InitPageViews /\ [][NextDedup]_vars

\* The page loads over a store that holds MaxOverflow pending events.
\* The variables of the tracker and of the page, which a pure-function run
\* leaves alone.
trackerVars ==
  <<constructed, isInitialized, config, eventQueue, batchTimer, timers,
    inflight, handed, delivered, ignored, store, nextId, teardowns,
    now, href, sessionId, userId, uuids, lastPageViewUrl, lastPageViewTime>>

\* The custom properties a caller may pass: any object over these names, a
\* reserved name among them, with any of these values.
PropNames == {"click_for", "timestamp"}

PropValues == {"nav-link", Undefined, Circular}

Properties == UNION {[names -> PropValues] : names \in SUBSET PropNames}

\* The events formatPayload may be handed: as trackEvent completes them, with
\* or without a user id and custom properties.
FormatEvents ==
  LET required == [eventName |-> "click", sessionId |-> "s-1",
                   timestamp |-> "1000", deviceType |-> "mobile",
                   userAgent |-> "ua", pageUrl |-> StartUrl]
      identified == required @@ [userId |-> "test-user"]
  IN  {required, identified}
      \cup {e @@ [properties |-> p] : e \in {required, identified}, p \in Properties}

Batches == UNION {[1..n -> FormatEvents] : n \in 1..MaxBatch}

InitFormat ==
  /\ InitTracker
  /\ config.reportMethod = IMMEDIATE
  /\ config.batchSize = 2
  /\ store = EmptyStore
  /\ arg \in Batches
  /\ result = NoResult

\* Reporter.formatPayload(arg)
Format ==
  /\ ~result.done
  /\ result' = Returned(formatPayload(arg))
  /\ UNCHANGED <<trackerVars, arg>>

NextFormat == Format

SpecFormat == InitFormat /\ [][NextFormat]_vars

\* How a fetch settles: with a response of some status after some time, or
\* with a network error.  A response later than the timeout is cut off by the
\* abort the timeout timer makes.
Statuses == {200, 204, 299, 304, 404, 500}

FetchOutcomes ==
  [settles : {"response"}, status : Statuses, after : {20, DefaultTimeout}]
  \cup [settles : {"error"}, status : {0}, after : {20}]

Environments ==
  [hasSendBeacon : BOOLEAN, hasAbortController : BOOLEAN,
   beacon : {"accepted", "rejected", "throws"}, fetch : FetchOutcomes]

\* The batches the tracker hands to report: its queue, which is not empty.
ReportCalls ==
  [events : {[i \in 1..n |-> [eventName |-> "click"]] : n \in 1..MaxBatch},
   reportMethod : ReportMethod, env : Environments]

InitReport ==
  /\ InitTracker
  /\ config.reportMethod = IMMEDIATE
  /\ config.batchSize = 2
  /\ store = EmptyStore
  /\ arg \in ReportCalls
  /\ result = NoResult

\* Reporter.report(arg.events) of a Reporter configured with arg.reportMethod
Report ==
  /\ ~result.done
  /\ result' = Returned(report(arg.events, arg.reportMethod, arg.env))
  /\ UNCHANGED <<trackerVars, arg>>

NextReport == Report

SpecReport == InitReport /\ [][NextReport]_vars

\* Faults and unserializable events: a tracker in batch mode whose callers
\* also pass properties that hold a reference cycle, over a localStorage
\* whose operations may start and stop throwing, in either build.
FaultSets == {{}, {"setItem"}, {"getItem"}, {"removeItem"}}

CurBuild(strict) == [Cur EXCEPT !.strictSpread = strict]

InitFaults ==
  /\ Init
  /\ config.reportMethod = BATCH
  /\ config.batchSize = 2

\* track(eventName, { self: <an object that refers to itself> })
TrackCircular ==
  /\ constructed
  /\ nextId <= MaxEvents
  /\ Becomes(trackProperties(Cur, [self |-> Circular]))

\* localStorage starts or stops throwing.
StorageFault ==
  \E faults \in FaultSets \ {store.faults} :
    /\ store' = [store EXCEPT !.faults = faults]
    /\ UNCHANGED <<constructed, isInitialized, config, eventQueue, batchTimer,
                   timers, inflight, handed, delivered, ignored, nextId,
                   teardowns, now, href, sessionId, userId, uuids,
                   lastPageViewUrl, lastPageViewTime, arg, result>>

SendCompleteBuild ==
  \E f \in inflight, success \in BOOLEAN, strict \in BOOLEAN :
    Becomes(sendEventsDone(CurBuild(strict), f, success))

TeardownBuild ==
  /\ constructed
  /\ teardowns < UnloadSignals
  /\ \E beaconOk \in BOOLEAN, strict \in BOOLEAN :
       Becomes([handleBeforeUnload(CurBuild(strict), beaconOk)
                  EXCEPT !.teardowns = @ + 1])

NextFaults ==
  \/ Construct
  \/ Track
  \/ TrackCircular
  \/ Flush
  \/ BatchTimerFires
  \/ RestoreTimerFires
  \/ SendCompleteBuild
  \/ TeardownBuild
  \/ StorageFault

SpecFaults == InitFaults /\ [][NextFaults]_vars

\* Sessions and users: a first visit with a tracker in beacon mode, which
\* sends on flush() only, whose page renews the session and is loaded again
\* over the store the earlier load left.
UserIds == {11}

InitSession ==
  /\ Init
  /\ config.reportMethod = BEACON
  /\ config.batchSize = 2
  /\ store = EmptyStore

SetUser ==
  /\ constructed
  /\ nextId <= MaxEvents
  /\ \E id \in UserIds : Becomes(setUser(Cur, [userId |-> id]))

\* The first visit has generated one identifier.
RenewSession ==
  /\ constructed
  /\ uuids <= MaxRenewals
  /\ Becomes(renewSession(Cur))

\* The page is loaded again: the objects of the old page are gone, its
\* requests are dropped, the store stays, and the script runs with the
\* configuration it ran with before.
reload(s) ==
  [s EXCEPT !.constructed = FALSE, !.isInitialized = FALSE,
            !.config = [reportMethod |-> @.reportMethod, batchSize |-> @.batchSize],
            !.eventQueue = <<>>, !.batchTimer = NoTimer, !.timers = {},
            !.inflight = {}, !.sessionId = NoSession,
            !.userId = NoUser, !.lastPageViewUrl = "", !.lastPageViewTime = 0]

\* The page is left and loaded again: the unload listener runs on the old
\* page, then the old page is gone.
Reload ==
  /\ constructed
  /\ teardowns < MaxReloads
  /\ \E beaconOk \in BOOLEAN :
       Becomes(reload([handleBeforeUnload(Cur, beaconOk)
                         EXCEPT !.teardowns = @ + 1]))

NextSession ==
  \/ Construct
  \/ Track
  \/ RenewSession
  \/ Flush
  \/ SendComplete
  \/ RestoreTimerFires
  \/ Reload

SpecSession == InitSession /\ [][NextSession]_vars

\* The same page, whose events are those that naming its user tracks.
NextIdentity ==
  \/ Construct
  \/ SetUser
  \/ RenewSession
  \/ Flush
  \/ SendComplete
  \/ RestoreTimerFires
  \/ Reload

SpecIdentity == InitSession /\ [][NextIdentity]_vars

\* API monitoring: a page whose tracker was configured with autoTrackApi and
\* which calls fetch itself, for the report URL too.  arg holds the URLs of
\* the fetch calls whose response the monitor is waiting for, result counts
\* the calls the page has made.
ReportUrl == "https://api.example.com/track"

ApiUrl == "https://api.example.com/data"

RequestUrls == {ReportUrl, ApiUrl}

API_PERFORMANCE == "api_performance"

\* What a page passes for the resource: a string, a URL object or (to fetch)
\* a Request object.
FetchInputs == [form : {"string", "URL", "Request"}, url : RequestUrls]

OpenInputs == [form : {"string", "URL"}, url : RequestUrls]

\* typeof input === 'string' ? input : input.toString(): the href of a URL
\* object, and "[object Request]" for a Request, which has no toString of
\* its own.
fetchUrl(input) ==
  IF input.form = "Request" THEN "[object Request]" ELSE input.url

\* url = args[1] || '': the argument of open() as it is, which no === makes
\* equal to a string when it is a URL object.
openUrl(input) ==
  IF input.form = "string" THEN input.url ELSE "[object URL]"

\* A monitored call: the resource it is for and the URL the monitor took.
Monitored(input, url) == [url |-> input.url, as |-> url]

\* Variant: the monitor does not recognise the tracker's own requests.
monitoredFetch_noFilter(pending, input, reportUrl) ==
  Append(pending, Monitored(input, fetchUrl(input)))

\* window.fetch as setupFetchMonitoring replaces it: a call for the report
\* URL goes to the original fetch, any other call gets the then/catch pair
\* that tracks its outcome.
monitoredFetch(pending, input, reportUrl) ==
  IF fetchUrl(input) = reportUrl
  THEN pending
  ELSE Append(pending, Monitored(input, fetchUrl(input)))

\* XMLHttpRequest.send as setupXHRMonitoring replaces it: the same test on
\* the URL given to open(), the readystatechange listener otherwise.
monitoredSend(pending, input, reportUrl) ==
  IF openUrl(input) = reportUrl
  THEN pending
  ELSE Append(pending, Monitored(input, openUrl(input)))

\* new XMLHttpRequest(), open(input) and send() of a page.
xhr(s, pending, input) ==
  IF s.isInitialized /\ s.config.autoTrackApi
  THEN monitoredSend(pending, input, ReportUrl)
  ELSE pending

\* window.fetch of a page: the replacement between init() and destroy() of a
\* tracker with autoTrackApi, the original otherwise.
fetch(s, pending, input) ==
  IF s.isInitialized /\ s.config.autoTrackApi
  THEN monitoredFetch(pending, input, ReportUrl)
  ELSE pending

\* The monitored calls once the tracker has made the step to s: sendFetch
\* calls window.fetch(reportUrl, ...) for a batch it is handed.
AfterSends(s, pending) ==
  IF \E f \in s.inflight \ inflight : f.via = "fetch"
  THEN fetch(Cur, pending, [form |-> "string", url |-> ReportUrl])
  ELSE pending

\* The calls the page has made: all of them, those for another URL than the
\* report URL, and those for the report URL whose URL the monitor cannot
\* take from what it is given.
NoRequests == [done |-> FALSE, requests |-> 0, monitorable |-> 0, opaque |-> 0]

InitApi ==
  /\ InitPage
  /\ config \in [reportMethod : {IMMEDIATE, BATCH}, batchSize : {2},
                  autoTrackApi : BOOLEAN]
  /\ store = EmptyStore
  /\ arg = <<>>
  /\ result = NoRequests

ApiConstruct ==
  /\ ~constructed
  /\ BecomesTracker([init(StorageManager(Cur), AutoTrackPageView)
                       EXCEPT !.constructed = TRUE])
  /\ UNCHANGED <<arg, result>>

\* The call of the page is counted.
Counted(input, url) ==
  [result EXCEPT !.requests = @ + 1,
                 !.monitorable = IF input.url = ReportUrl THEN @ ELSE @ + 1,
                 !.opaque = IF input.url = ReportUrl /\ url # ReportUrl
                            THEN @ + 1 ELSE @]

\* The page calls fetch(input).
PageFetch ==
  /\ constructed
  /\ result.requests < MaxRequests
  /\ \E input \in FetchInputs :
       /\ arg' = fetch(Cur, arg, input)
       /\ result' = Counted(input, fetchUrl(input))
  /\ UNCHANGED trackerVars

\* The page sends an XMLHttpRequest it has opened for input.
PageSend ==
  /\ constructed
  /\ result.requests < MaxRequests
  /\ \E input \in OpenInputs :
       /\ arg' = xhr(Cur, arg, input)
       /\ result' = Counted(input, openUrl(input))
  /\ UNCHANGED trackerVars

\* The response (or the error) of a monitored call arrives: its then/catch
\* tracks the api_request event, which immediate mode sends at once.
Without(pending, i) == SubSeq(pending, 1, i - 1) \o SubSeq(pending, i + 1, Len(pending))

FetchSettles ==
  \E i \in DOMAIN arg :
    LET r == trackEvent(Cur, [eventType |-> API_PERFORMANCE,
                              properties |-> [url |-> arg[i].as]])
    IN  /\ nextId <= MaxEvents
        /\ BecomesTracker(r)
        /\ arg' = AfterSends(r, Without(arg, i))
        /\ UNCHANGED result

ApiFlush ==
  /\ constructed
  /\ BecomesTracker(flush(Cur))
  /\ arg' = AfterSends(flush(Cur), arg)
  /\ UNCHANGED result

ApiDestroy ==
  /\ constructed
  /\ BecomesTracker(destroy(Cur))
  /\ arg' = AfterSends(destroy(Cur), arg)
  /\ UNCHANGED result

ApiBatchTimerFires ==
  \E t \in timers :
    /\ t.kind = "batch"
    /\ BecomesTracker(batchTimerCallback(clearTimeout(Cur, t.id)))
    /\ arg' = AfterSends(batchTimerCallback(clearTimeout(Cur, t.id)), arg)
    /\ UNCHANGED result

NextApi ==
  \/ ApiConstruct
  \/ PageFetch
  \/ PageSend
  \/ FetchSettles
  \/ ApiFlush
  \/ ApiDestroy
  \/ ApiBatchTimerFires
  \/ SendComplete

SpecApi == InitApi /\ [][NextApi]_vars

\* The Durable Buffer in use: the same first visit, whose page also calls
\* clear() on the StorageManager.
Clear ==
  /\ constructed
  /\ uuids <= MaxRenewals
  /\ Becomes(clear(Cur))

NextBuffer ==
  \/ Construct
  \/ Track
  \/ SetUser
  \/ RenewSession
  \/ Clear
  \/ Flush
  \/ SendComplete
  \/ Reload

SpecBuffer == InitSession /\ [][NextBuffer]_vars

\* Dropping a prefix of the overflow: a StorageManager over the store an
\* earlier page load left, whose caller drops prefixes while localStorage may
\* start and stop throwing.
Counts == 0..(MaxOverflow + 1)

InitDrop ==
  /\ Init
  /\ config.reportMethod = BATCH
  /\ config.batchSize = 2

\* storage.removePendingEvents(count); result keeps the store of before.
Drop ==
  \E count \in Counts :
    /\ arg' = [count |-> count]
    /\ result' = Returned(store)
    /\ store' = removePendingEvents(store, count)
    /\ UNCHANGED <<constructed, isInitialized, config, eventQueue, batchTimer,
                   timers, inflight, handed, delivered, ignored, nextId,
                   teardowns, now, href, sessionId, userId, uuids,
                   lastPageViewUrl, lastPageViewTime>>

NextDrop ==
  \/ Drop
  \/ StorageFault

SpecDrop == InitDrop /\ [][NextDrop]_vars

\* clearUser()
ClearUser ==
  /\ constructed
  /\ nextId <= MaxEvents
  /\ Becomes(clearUser(Cur))

\* The user of a page: the same first visit, whose page names and forgets
\* its user over a localStorage whose operations may start and stop throwing.
NextUser ==
  \/ Construct
  \/ Track
  \/ SetUser
  \/ ClearUser
  \/ StorageFault
  \/ Reload

SpecUser == InitSession /\ [][NextUser]_vars

InitRestore == Init /\ Len(getPendingEvents(store)) = MaxOverflow

SpecRestore == InitRestore /\ [][Next]_vars

-----------------------------------------------------------------------------
(* Vocabulary of the properties *)

\* The reporter.report() calls sendEvents makes in this step.
NewCalls == inflight' \ inflight

\* This step accepts an event into the pipeline; NewEvent is that event.
Accepted == nextId' = nextId + 1
NewEvent == FullEvent(Cur, [eventType |-> CUSTOM])

BatchSizeOf(c) == IF c.batchSize # 0 THEN c.batchSize ELSE DefaultBatchSize

Running == constructed /\ isInitialized
Stopped == constructed /\ ~isInitialized

BatchTimers == {t \in timers : t.kind = "batch"}
RestoreTimers == {t \in timers : t.kind = "restore"}

Overflow == getPendingEvents(store)

InFlightIds == UNION {Ids(f.batch) : f \in inflight}

\* The event was created by an earlier page load (and so came from the store).
Restored(e) == e.timestamp < PageLoadTime
RestoredIn(events) == {i \in DOMAIN events : Restored(events[i])}

\* Under SpecRestore: the identities of the events in the store at page load.
RestoredIds == 1..MaxOverflow

\* How many times the event id is held: pending, in a batch in flight, in
\* the overflow, delivered.
Count(events, id) == Cardinality({i \in DOMAIN events : events[i].id = id})
Copies(id) ==
  Count(eventQueue, id) + Cardinality({f \in inflight : id \in Ids(f.batch)})
    + Count(Overflow, id) + (IF id \in delivered THEN 1 ELSE 0)

-----------------------------------------------------------------------------
(* C1 *)

C1_Step ==
  /\ \A f \in NewCalls :
       /\ NewCalls = {f}
       /\ f.batch = IF Accepted THEN Append(eventQueue, NewEvent) ELSE eventQueue
       /\ eventQueue' = <<>>
       /\ Ids(f.batch) \cap InFlightIds = {}
  /\ Accepted => /\ inflight \subseteq inflight'
                 /\ nextId \notin InFlightIds

C1_Inv ==
  constructed =>
    \A id \in 1..(nextId - 1) :
      LET inQueue == {i \in DOMAIN eventQueue : eventQueue[i].id = id}
      IN  \/ Cardinality(inQueue) = 1 /\ handed[id] = 0
          \/ inQueue = {} /\ handed[id] = 1

\* C1 (swap safety): the batch a flush hands to the reporter is exactly the
\* pending queue at the moment of the swap (with the event being enqueued,
\* when an enqueue triggers the flush) and the queue is empty afterwards; an
\* event accepted while sends are in flight is in none of their batches and
\* leaves them untouched; every event of the tracker is either still pending
\* and in no batch, or no longer pending and in the batch of exactly one flush.
C1_SwapSafety == [][C1_Step]_vars /\ []C1_Inv

\* Two sends are in flight at once and every event of the later one was
\* enqueued after the swap of the earlier one.
C1_Witness ==
  \E f, g \in inflight :
    /\ f # g
    /\ \A i \in Ids(f.batch), j \in Ids(g.batch) : i < j /\ handed[j] = 1

-----------------------------------------------------------------------------
(* C2 *)

\* C2 (failure re-buffer): a step in which the outcome of an in-flight batch
\* arrives, in any state of the pipeline (stopped included): on failure the
\* overflow afterwards is the overflow before followed by the batch in its
\* order, and no event of the batch is added to the delivered ones; on
\* success the store is unchanged and the batch counts as delivered.
C2_FailureRebuffer ==
  [][\A f \in inflight \ inflight', success \in BOOLEAN :
       Becomes(sendEventsDone(Cur, f, success)) =>
         IF success
         THEN /\ store' = store
              /\ delivered' = delivered \cup Ids(f.batch)
         ELSE /\ getPendingEvents(store') = Overflow \o f.batch
              /\ delivered' = delivered
              /\ f \notin inflight']_vars

\* A stopped tracker with nothing in flight, no unload signal handled, whose
\* store holds, after an earlier failed batch, the failed batch of a later
\* flush, while another batch was delivered.
C2_Witness ==
  /\ Stopped
  /\ teardowns = 0
  /\ inflight = {}
  /\ Len(Overflow) >= 2
  /\ \E i \in DOMAIN Overflow : handed[Overflow[i].id] = 1
  /\ delivered # {}

-----------------------------------------------------------------------------
(* C3 *)

C3_Step ==
  /\ (Accepted /\ config.reportMethod = BATCH) =>
       IF Len(eventQueue) + 1 = BatchSizeOf(config)
       THEN /\ NewCalls = {[batch |-> Append(eventQueue, NewEvent), via |-> "fetch"]}
            /\ eventQueue' = <<>>
       ELSE Len(eventQueue) + 1 < BatchSizeOf(config) => NewCalls = {}
  /\ (BatchTimerFires \/ RestoreTimerFires) =>
       \A f \in NewCalls : \A id \in Ids(f.batch) : handed[id] = 0

\* C3 (batch trigger): in batch mode the enqueue that brings the queue to
\* the batch size N makes exactly one report call, carrying the N queued
\* events in order, and empties the queue; the enqueues before it make no
\* call; no timer callback ever hands over an event that a flush has already
\* handed over.
C3_BatchTrigger == [][C3_Step]_vars

\* Batch mode, a batch of exactly N events in flight, the queue empty, and
\* the timer armed by the first of the N enqueues still pending.
C3_Witness ==
  /\ config.reportMethod = BATCH
  /\ eventQueue = <<>>
  /\ BatchTimers # {}
  /\ \E f \in inflight : Len(f.batch) = BatchSizeOf(config) /\ f.via = "fetch"

-----------------------------------------------------------------------------
(* C4 *)

\* C4 (every flush cancels the timer), as claimed: after any step in which
\* sendEvents has swapped out the queue, the batch timer handle is null and
\* no batch timer is pending.
C4_FlushCancelsTimer ==
  [][NewCalls # {} => (batchTimer' = NoTimer /\ BatchTimers' = {})]_vars

-----------------------------------------------------------------------------
(* C5 *)

\* C5 (timer single-arm): at most one batch timer is pending, and the handle
\* batchTimer is non-null exactly while one is pending, and then it is the
\* handle of that timer.
C5_TimerSingleArm ==
  BatchTimers = IF batchTimer = NoTimer THEN {}
                ELSE {[id |-> batchTimer, kind |-> "batch"]}

\* Batch mode with two events pending under a batch size of three: the second
\* enqueue found the timer armed.
C5_Witness ==
  /\ config.reportMethod = BATCH
  /\ Len(eventQueue) = 2
  /\ BatchSizeOf(config) = 3
  /\ batchTimer # NoTimer
  /\ RestoreTimers = {}

-----------------------------------------------------------------------------
(* C6 *)

\* C6, as claimed: in batch mode with fewer than size events pending, a
\* report call is made only by flush(), by destroy() or by the callback of the
\* batch timer.
C6_OnlyBatchTimer ==
  [][(config.reportMethod = BATCH /\ ~Accepted /\ NewCalls # {}
        /\ Len(eventQueue) < BatchSizeOf(config))
       => (Flush \/ Destroy \/ BatchTimerFires)]_vars

C6_Step ==
  /\ (Accepted /\ config.reportMethod = BATCH
        /\ Len(eventQueue) + 1 < BatchSizeOf(config)) =>
       /\ NewCalls = {}
       /\ eventQueue' = Append(eventQueue, NewEvent)
       /\ BatchTimers' # {}
  /\ (config.reportMethod = BATCH /\ ~Accepted /\ NewCalls # {}
        /\ Len(eventQueue) < BatchSizeOf(config)) =>
       (Flush \/ Destroy \/ BatchTimerFires \/ RestoreTimerFires)
  /\ (BatchTimerFires \/ RestoreTimerFires) =>
       IF eventQueue # <<>>
       THEN /\ \E f \in NewCalls : NewCalls = {f} /\ f.batch = eventQueue
            /\ eventQueue' = <<>>
       ELSE NewCalls = {}

\* C6 amended: in batch mode an enqueue that leaves fewer than size events
\* pending makes no report call and leaves a batch timer armed; with fewer
\* than size pending, a report call is made only by flush(), destroy() or the
\* callback of a deferred timer, the batch timer or the restore timer; a
\* timer callback that finds events pending makes exactly one call carrying
\* the whole queue, and none when the queue is empty.
C6_DeferredFlush == [][C6_Step]_vars

\* Batch mode, fewer than size events accumulated behind an armed batch timer,
\* nothing sent so far.
C6_Witness ==
  /\ config.reportMethod = BATCH
  /\ Running
  /\ eventQueue # <<>>
  /\ Len(eventQueue) < BatchSizeOf(config)
  /\ BatchTimers # {}
  /\ inflight = {}
  /\ \A id \in DOMAIN handed : handed[id] = 0

-----------------------------------------------------------------------------
(* C7 *)

\* C7 (immediate mode): a step that accepts an event in immediate mode hands
\* the whole queue, the new event last, to the reporter in one call, leaves
\* the queue empty and arms or cancels no timer.
C7_Immediate ==
  [][(Accepted /\ config.reportMethod = IMMEDIATE) =>
       /\ NewCalls = {[batch |-> Append(eventQueue, NewEvent), via |-> "fetch"]}
       /\ eventQueue' = <<>>
       /\ timers' = timers
       /\ batchTimer' = batchTimer]_vars

\* Immediate mode, the queue empty and the last accepted event in flight
\* together with an event that was pending before it.
C7_Witness ==
  /\ config.reportMethod = IMMEDIATE
  /\ Running
  /\ eventQueue = <<>>
  /\ \E f \in inflight :
       /\ Len(f.batch) >= 2
       /\ f.batch[Len(f.batch)].id = nextId - 1

-----------------------------------------------------------------------------
(* C8 *)

\* C8 (teardown-only), as claimed: while the report method is beacon, a
\* report call of sendEvents is made only by flush() or destroy().
C8_NoAutoFlushInBeacon ==
  [][(config.reportMethod = BEACON /\ NewCalls # {}) => (Flush \/ Destroy)]_vars

-----------------------------------------------------------------------------
(* C9 *)

-----------------------------------------------------------------------------
(* C10 *)

\* C10 (stop is final), as claimed: once stopped, the tracker has an empty
\* queue and no timer armed.
C10_StoppedIsQuiet ==
  Stopped => (eventQueue = <<>> /\ batchTimer = NoTimer /\ timers = {})

-----------------------------------------------------------------------------
(* C11 *)

\* What flush(), destroy() and the callbacks of the pending timers make of
\* the current state.
FlushOutcomes ==
  {flush(Cur), destroy(Cur)}
    \cup {batchTimerCallback(clearTimeout(Cur, t.id)) : t \in BatchTimers}
    \cup {restoreTimerCallback(clearTimeout(Cur, t.id)) : t \in RestoreTimers}

\* C11 (empty flush is a no-op): in every reachable state whose pending queue
\* is empty, a flush by flush(), by destroy() or by the callback of a pending
\* timer makes no report call, leaves the store as it is and the queue empty,
\* and hands over or delivers no event.
C11_EmptyFlushNoop ==
  (constructed /\ eventQueue = <<>>) =>
    \A r \in FlushOutcomes :
      /\ r.inflight = inflight
      /\ r.store = store
      /\ r.eventQueue = <<>>
      /\ r.handed = handed
      /\ r.delivered = delivered

\* A tracker that was stopped before any event existed: destroy() flushed an
\* empty queue, nothing is in flight and the store has no pending events.
C11_Witness ==
  /\ Stopped
  /\ nextId = 1
  /\ eventQueue = <<>>
  /\ inflight = {}
  /\ getItem(store, PENDING_EVENTS) = Absent

-----------------------------------------------------------------------------
(* C12 *)

\* C12 (restore delay), as claimed: while the restore timer is pending, a
\* report call that carries a restored event is made by nothing but the
\* callback of that timer.
C12_NoDeliveryBeforeDelay ==
  [][(RestoreTimers # {} /\ \E f \in NewCalls : RestoredIn(f.batch) # {})
       => RestoreTimerFires]_vars

\* C12 amended: the constructor makes no report call; when the store holds
\* pending events it moves them to the queue and arms exactly one restore
\* timer, and arms none otherwise; and as long as a restored event is pending
\* in the queue that timer is pending too (a flush from elsewhere may take the
\* restored events earlier).
C12_RestoreDeferred ==
  /\ ~constructed =>
       LET r == init(Cur, AutoTrackPageView)
       IN  /\ r.inflight = {}
           /\ r.eventQueue = Overflow
           /\ \A id \in DOMAIN r.handed : r.handed[id] = 0
           /\ Cardinality({t \in r.timers : t.kind = "restore"})
                = IF Overflow # <<>> THEN 1 ELSE 0
  /\ RestoredIn(eventQueue) # {} => Cardinality(RestoreTimers) = 1

\* A running tracker right after a restore: only restored events pending,
\* the restore timer pending, nothing handed over and the store emptied.
C12_Witness ==
  /\ Running
  /\ eventQueue # <<>>
  /\ RestoredIn(eventQueue) = DOMAIN eventQueue
  /\ RestoreTimers # {}
  /\ inflight = {}
  /\ \A id \in DOMAIN handed : handed[id] = 0
  /\ Overflow = <<>>

-----------------------------------------------------------------------------
(* C13 *)

\* What the constructor does with the store it finds: the stored events, in
\* stored order, are the pending queue and the key is removed.
C13_Drained ==
  ~constructed =>
    LET r == init(Cur, AutoTrackPageView)
    IN  /\ r.eventQueue = Overflow
        /\ getItem(r.store, PENDING_EVENTS) = Absent

-----------------------------------------------------------------------------
(* C14 *)

\* C14 (teardown redundancy): in every reachable state of a constructed
\* tracker, the unload handler, whatever the outcome of its beacon, does this:
\* with events pending it makes one beacon report carrying the queue as it
\* is, appends the same events to the overflow, and leaves the queue and the
\* sends in flight as they are; with nothing pending it makes no report and
\* changes nothing.
C14_TeardownRedundancy ==
  constructed =>
    \A beaconOk \in BOOLEAN :
      LET r == handleBeforeUnload(Cur, beaconOk)
      IN  IF eventQueue # <<>>
          THEN /\ r.beaconReport = <<[batch |-> eventQueue, via |-> "beacon"]>>
               /\ getPendingEvents(r.store) = Overflow \o eventQueue
               /\ r.eventQueue = eventQueue
               /\ r.inflight = inflight
               /\ r.delivered = delivered
          ELSE r = Cur

\* An unload signal was handled with events pending: they are still pending
\* and the overflow ends with a copy of the queue.
C14_Witness ==
  /\ teardowns >= 1
  /\ eventQueue # <<>>
  /\ Len(Overflow) >= Len(eventQueue)
  /\ SubSeq(Overflow, Len(Overflow) - Len(eventQueue) + 1, Len(Overflow))
       = eventQueue

-----------------------------------------------------------------------------
(* C15 *)

\* C15 (loss needs a double failure), as claimed: in every reachable state of
\* a constructed tracker, once the unload handler has run on a store that
\* accepts its write, every event of the pipeline whose batch has not come
\* back delivered is in the overflow.
C15_SafeAfterTeardown ==
  constructed =>
    \A beaconOk \in BOOLEAN :
      LET r == handleBeforeUnload(Cur, beaconOk)
      IN  \A id \in 1..(nextId - 1) :
            id \notin delivered => id \in Ids(getPendingEvents(r.store))

-----------------------------------------------------------------------------
(* C16 *)

\* The events of a sequence are in the order they were accepted (identities
\* are given in acceptance order), the restored ones first.
InAcceptanceOrder(events) ==
  \A i, j \in DOMAIN events :
    i < j => /\ events[i].id < events[j].id
             /\ Restored(events[j]) => Restored(events[i])

\* C16 (delivery order is insertion order): the pending queue and every batch
\* handed to the reporter list their events in acceptance order, restored
\* events before the events accepted after start; and every pending event
\* was accepted after every event a flush has already taken, so a flush
\* started later carries only later events.
C16_DeliveryOrder ==
  /\ InAcceptanceOrder(eventQueue)
  /\ \A f \in inflight : InAcceptanceOrder(f.batch)
  /\ \A i \in DOMAIN eventQueue, id \in DOMAIN handed :
       handed[id] >= 1 => id < eventQueue[i].id

\* A batch in flight that holds a restored event followed by an event
\* accepted after start, while a later event is pending.
C16_Witness ==
  /\ eventQueue # <<>>
  /\ \E f \in inflight :
       /\ RestoredIn(f.batch) # {}
       /\ RestoredIn(f.batch) # DOMAIN f.batch

-----------------------------------------------------------------------------
(* C17 *)

\* A report of sendEvents comes back false in this step.
SendFails ==
  \E f \in inflight : Becomes(sendEventsDone(Cur, f, FALSE))

\* The event is in the overflow of a running tracker because its batch
\* failed (no unload signal has written to the store).
CachedByFailure(id) ==
  /\ Running
  /\ teardowns = 0
  /\ handed[id] >= 1
  /\ id \in Ids(Overflow)

\* C17 (offline cache), as claimed, under FairSpec: if from some point on no
\* report fails, every event that a failed report left in the overflow of
\* the running tracker is eventually delivered, unless the tracker is
\* stopped first.
C17_OfflineCache ==
  (<>[][~SendFails]_vars) =>
    \A id \in 1..MaxEvents :
      CachedByFailure(id) ~> (id \in delivered \/ Stopped)

-----------------------------------------------------------------------------
(* C18 *)

\* The page views among the events of a sequence.
PageViews(events) ==
  {events[i] : i \in {j \in DOMAIN events : events[j].eventType = PAGE_VIEW}}

\* C18 (initial page load is tracked), as claimed: the constructor, run with
\* autoTrackPageView on, accepts one event, a page view of the current URL,
\* which is then pending or, flushed by its own enqueue, in flight.
C18_InitialPageView ==
  [][Construct =>
       /\ Accepted
       /\ \E e \in PageViews(eventQueue')
                  \cup UNION {PageViews(f.batch) : f \in inflight'} :
            e.id = nextId /\ e.pageUrl = href]_vars

-----------------------------------------------------------------------------
(* C19 *)

\* The page views the pipeline holds: pending, in flight or in the overflow.
HeldPageViews ==
  PageViews(eventQueue) \cup UNION {PageViews(f.batch) : f \in inflight}
    \cup PageViews(Overflow)

\* C19 (dedup window), as claimed, under SpecPageViews: no two page views of
\* the same URL created less than 100 ms apart have both reached the
\* pipeline, whether the collector or trackPageView() created them.
C19_DedupWindow ==
  \A e1, e2 \in HeldPageViews :
    (e1.id < e2.id /\ e1.pageUrl = e2.pageUrl)
      => e2.timestamp - e1.timestamp >= DedupWindowMs

-----------------------------------------------------------------------------
(* C20 *)

\* C20 (pending-queue uniqueness), as claimed, under SpecPageViews: no two
\* events of the pending queue have the same session id, timestamp and page
\* URL.
C20_QueueUnique ==
  \A i, j \in DOMAIN eventQueue :
    i < j =>
      <<eventQueue[i].sessionId, eventQueue[i].timestamp, eventQueue[i].pageUrl>>
        # <<eventQueue[j].sessionId, eventQueue[j].timestamp, eventQueue[j].pageUrl>>

-----------------------------------------------------------------------------
(* The wire record (specification SpecFormat) *)

\* formatPayload has returned a body that carries the batch.
Formatted == result.done /\ ~HasCycle(arg)

Wire == WireRecords(result.value)

CustomProperties(event) ==
  IF "properties" \in DOMAIN event THEN event.properties ELSE <<>>

Canonical(event) ==
  [event_name |-> Get(event, "eventName"), user_id |-> Get(event, "userId"),
   session_id |-> Get(event, "sessionId"), timestamp |-> Get(event, "timestamp"),
   app_id |-> AppId, platform |-> Get(event, "deviceType"),
   user_agent |-> Get(event, "userAgent"), page_url |-> Get(event, "pageUrl")]

\* C22: the reserved fields of a wire record carry the canonical values of
\* the event, also when a custom property has the name of a reserved field.
C22_ReservedPrecedence ==
  Formatted =>
    \A i \in DOMAIN arg :
      \A n \in DOMAIN Canonical(arg[i]) :
        Get(Wire[i], n) = Canonical(arg[i])[n]

\* C23: the wire record of an event tracked with properties has a field
\* custom_properties holding the JSON serialization of those properties.
C23_CustomPropertiesField ==
  Formatted =>
    \A i \in DOMAIN arg :
      DOMAIN CustomProperties(arg[i]) # {} =>
        /\ "custom_properties" \in DOMAIN Wire[i]
        /\ Wire[i]["custom_properties"] = safeStringify(arg[i].properties, FALSE)

-----------------------------------------------------------------------------
(* The outcome of a send (specification SpecReport) *)

\* The call went out through the beacon primitive.
ViaBeacon == arg.reportMethod = BEACON /\ arg.env.hasSendBeacon

\* The POST completed in time with a 2xx status.
PostCompleted2xx ==
  /\ ~ViaBeacon
  /\ arg.env.hasAbortController
  /\ arg.env.fetch.settles = "response"
  /\ arg.env.fetch.after < DefaultTimeout
  /\ arg.env.fetch.status \in 200..299

BeaconAccepted == ViaBeacon /\ arg.env.beacon = "accepted"

\* C24: a send never raises and answers one boolean: true exactly when the
\* POST completed with a 2xx status or, through the beacon primitive, when
\* the primitive accepted; false on a network error, a timeout, any other
\* status or a rejection by the primitive.
C24_SendOutcome ==
  result.done =>
    /\ ~result.value.raised
    /\ result.value.value = (PostCompleted2xx \/ BeaconAccepted)

C24_Witness ==
  /\ result.done
  /\ ~ViaBeacon
  /\ arg.env.fetch.settles = "response"
  /\ arg.env.fetch.status = 500
  /\ result.value = Return(FALSE)

-----------------------------------------------------------------------------
(* Failures (specification SpecFaults) *)

\* C25: nothing raises past the public boundary: no public operation and no
\* timer or teardown callback throws or ends in a rejected promise, whatever
\* the delivery outcome and the state of the store.  (track, setUser,
\* clearUser and the timers raise only through the sendEvents they start,
\* whose outcome arrives in sendEventsDone.)
C25_NothingRaises ==
  \A strict \in BOOLEAN :
    /\ \A f \in inflight, success \in BOOLEAN :
         ~sendEventsDone(CurBuild(strict), f, success).raised
    /\ \A beaconOk \in BOOLEAN :
         ~handleBeforeUnload(CurBuild(strict), beaconOk).raised
    /\ ~flush(CurBuild(strict)).raised
    /\ ~destroy(CurBuild(strict)).raised
    /\ ~track(CurBuild(strict)).raised

\* C26: every operation of the durable buffer completes without raising in
\* every reachable state of the store.
C26_BufferNeverRaises ==
  \A strict \in BOOLEAN :
    ~storage_savePendingEvents(CurBuild(strict), <<NewEvent>>).raised

\* C27: when one event of a batch cannot be serialized, every other event of
\* the batch is still delivered or re-buffered: after a failed send over a
\* store that takes writes, each serializable event of the batch is in the
\* overflow.
C27_SerializationFailureIsolated ==
  \A f \in inflight :
    LET r == sendEventsDone(CurBuild(FALSE), f, FALSE)
    IN  store.faults = {} =>
          \A i \in DOMAIN f.batch :
            ~HasCycle(<<f.batch[i]>>) =>
              f.batch[i].id \in Ids(Spread(getPendingEvents(r.store)))

-----------------------------------------------------------------------------
(* Sessions and identity (specifications SpecSession and SpecIdentity) *)

\* The lists of events the pipeline holds: the pending queue, the overflow
\* and the batches handed to a report.
HeldLists == {eventQueue, Overflow} \cup {f.batch : f \in inflight}

\* The events the pipeline holds.
Held ==
  {eventQueue[i] : i \in DOMAIN eventQueue}
  \cup UNION {{f.batch[i] : i \in DOMAIN f.batch} : f \in inflight}
  \cup {Overflow[i] : i \in DOMAIN Overflow}

\* The states a call of an operation other than renewSession, or a callback,
\* leads to.
AfterOtherCalls ==
  {track(Cur), trackPageView(Cur), clearUser(Cur), flush(Cur), destroy(Cur)}
  \cup {setUser(Cur, [userId |-> id]) : id \in UserIds}
  \cup {updateConfig(Cur, [userId |-> id]) : id \in UserIds}
  \cup {sendEventsDone(Cur, f, success) : f \in inflight, success \in BOOLEAN}
  \cup {handleBeforeUnload(Cur, beaconOk) : beaconOk \in BOOLEAN}
  \cup {restoreTimerCallback(clearTimeout(Cur, t.id)) : t \in timers}

\* The events of a state that the present state does not hold yet.
Created(r) == {r.eventQueue[i] : i \in DOMAIN r.eventQueue} \ Held

\* C28: a tracker started over a store that holds a session id uses that id;
\* started over a store without one it generates a new id and persists it;
\* and the id is the same, in memory and in the store, for every event
\* created by any call other than renewSession.
C28_SessionGetOrCreate ==
  /\ ~constructed =>
       LET stored == getItem(store, SESSION_ID)
           r == StorageManager(Cur)
       IN  /\ stored # Absent => r.sessionId = stored[1] /\ r.store = store
           /\ stored = Absent =>
                /\ r.sessionId \notin {e.sessionId : e \in Held} \cup {NoSession}
                /\ getItem(r.store, SESSION_ID) = <<r.sessionId>>
  /\ constructed =>
       /\ getItem(store, SESSION_ID) = <<sessionId>>
       /\ \A r \in AfterOtherCalls :
            /\ r.sessionId = sessionId
            /\ r.store.argos_session_id = store.argos_session_id
            /\ \A e \in Created(r) : e.sessionId = sessionId

\* A tracker started over the session an earlier page load stored has
\* created an event in it, next to a restored event of that page load.
C28_Witness ==
  /\ constructed
  /\ RestoreTimers # {}
  /\ uuids = 1
  /\ \E i, j \in DOMAIN eventQueue :
       /\ i < j
       /\ handed[eventQueue[j].id] = 0
       /\ eventQueue[i].sessionId = sessionId
       /\ eventQueue[j].sessionId = sessionId

\* C29: renewSession returns an id different from the one in use (and from
\* that of every event held), persists it, and the events created from then
\* on carry it, while the events already held keep theirs.
C29_RenewSession ==
  constructed =>
    LET r == renewSession(Cur)
    IN  /\ r.sessionId # sessionId
        /\ r.sessionId \notin {e.sessionId : e \in Held}
        /\ getItem(r.store, SESSION_ID) = <<r.sessionId>>
        /\ r.eventQueue = eventQueue
        /\ \A e \in {y \in {track(r).eventQueue[i] : i \in DOMAIN track(r).eventQueue} :
                        y \notin Held} :
             e.sessionId = r.sessionId

\* After a renewal the queue holds an event of the old session and a later
\* one of the new session.
C29_Witness ==
  /\ constructed
  /\ uuids > 0
  /\ \E i, j \in DOMAIN eventQueue :
       /\ i < j
       /\ eventQueue[i].sessionId # sessionId
       /\ eventQueue[j].sessionId = sessionId

\* The lists of events a state holds.
HeldIn(s) ==
  {s.eventQueue, getPendingEvents(s.store)} \cup {f.batch : f \in s.inflight}

\* The states one call, one callback, one page load or one start of the
\* tracker leads to.
AfterAnyStep ==
  IF constructed
  THEN AfterOtherCalls
       \cup {renewSession(Cur)}
       \cup {reload(handleBeforeUnload(Cur, beaconOk)) : beaconOk \in BOOLEAN}
  ELSE {init(StorageManager(Cur), AutoTrackPageView)}

\* C30: an event that is held keeps its timestamp, its session id and its
\* user id through every step: renewSession, setUser, clearUser, updateConfig,
\* flush, the write to the overflow and the restore by a later page load.
C30_EventImmutability ==
  \A r \in AfterAnyStep :
    \A a \in HeldLists : \A b \in HeldIn(r) :
      \A i \in DOMAIN a : \A j \in DOMAIN b :
        a[i].id = b[j].id =>
          /\ b[j].timestamp = a[i].timestamp
          /\ b[j].sessionId = a[i].sessionId
          /\ b[j].userId = a[i].userId

\* An event that went through the overflow and a later page load is pending
\* again with the session of its creation, which has been renewed since, and
\* with the user that clearUser is about to forget.
C30_Witness ==
  /\ constructed
  /\ \E i \in DOMAIN eventQueue :
       /\ ~Restored(eventQueue[i])
       /\ handed[eventQueue[i].id] > 0
       /\ eventQueue[i].sessionId # sessionId
       /\ eventQueue[i].userId = userId
       /\ eventQueue[i].userId # clearUser(Cur).userId

-----------------------------------------------------------------------------
(* User identity (specification SpecUser) *)

\* The user ids a caller passes.
CallerIds == UserIds \cup {12}

\* The event a track() call adds to the queue of a state.
Tracked(s) == track(s).eventQueue[Len(track(s).eventQueue)]

\* setUserId(id) is followed by getUserId() = id, the id in the store and the
\* id on the next event; clearUserId() by no id in any of the three.
UserIdentity ==
  /\ \A id \in CallerIds :
       LET r == setUserId(Cur, id)
       IN  /\ storage_getUserId(r).userId = id
           /\ r.store.argos_user_id = <<id>>
           /\ Tracked(r).userId = id
  /\ LET r == clearUserId(Cur)
     IN  /\ storage_getUserId(r).userId = NoUser
         /\ r.store.argos_user_id = Absent
         /\ Tracked(r).userId = NoUser

-----------------------------------------------------------------------------
(* Concurrent failing flushes (specification SpecSession) *)

\* The sequence has no element twice.
NoDuplicates(events) ==
  \A i, j \in DOMAIN events : events[i].id = events[j].id => i = j

\* C32: when two reports are in flight at once and both fail, in either
\* order, the overflow afterwards is the overflow before followed by the
\* batch that failed first and the batch that failed second, each event of
\* the two batches once.
C32_ConcurrentFailures ==
  \A f, g \in inflight :
    f # g =>
      LET r1 == sendEventsDone(Cur, f, FALSE)
          r2 == sendEventsDone(r1, g, FALSE)
      IN  /\ getPendingEvents(r1.store) = Overflow \o f.batch
          /\ getPendingEvents(r2.store) = Overflow \o f.batch \o g.batch
          /\ NoDuplicates(f.batch \o g.batch)
          /\ r2.inflight = inflight \ {f, g}

\* Two flushes are in flight at once while the overflow holds an event of a
\* batch that failed earlier.
C32_Witness ==
  /\ constructed
  /\ \E f, g \in inflight : f # g
  /\ \E i \in DOMAIN Overflow : handed[Overflow[i].id] > 0

-----------------------------------------------------------------------------
(* Lifecycle of the durable overflow *)

\* C33: in every step, an event that enters the overflow does so because a
\* report failed or an unload signal was handled, and an event that leaves
\* the overflow has been delivered.
C33_OverflowLifecycle ==
  [][/\ \A id \in Ids(getPendingEvents(store')) \ Ids(Overflow) :
          SendFails \/ teardowns' # teardowns
     /\ \A id \in Ids(Overflow) \ Ids(getPendingEvents(store')) :
          id \in delivered']_vars

-----------------------------------------------------------------------------
(* Dropping a prefix of the overflow (specification SpecDrop) *)

\* The array under the key of the overflow, as localStorage holds it.
StoredEvents(st) ==
  IF st.argos_pending_events = Absent
  THEN <<>>
  ELSE st.argos_pending_events[1].json

\* C34: after removePendingEvents(count) the store holds the array it held
\* before without its first count entries, in the same order, and no key at
\* all when count is at least the length of that array.
C34_DropPrefix ==
  result.done =>
    LET before == StoredEvents(result.value)
    IN  IF arg.count >= Len(before)
        THEN store.argos_pending_events = Absent
        ELSE /\ store.argos_pending_events # Absent
             /\ StoredEvents(store) = SubSeq(before, arg.count + 1, Len(before))

-----------------------------------------------------------------------------
(* API monitoring (specification SpecApi) *)

\* The api_request events among the events of a list.
ApiRequests(events) ==
  {events[i] : i \in {j \in DOMAIN events : events[j].eventType = API_PERFORMANCE}}

\* C35 as stated: no call for the report URL is monitored and no
\* api_request event is about the report URL; the events created and the
\* monitored calls still open are never more than the calls the page made for
\* other URLs.
C35_NoReportUrlEvent ==
  /\ \A i \in DOMAIN arg : arg[i].url # ReportUrl
  /\ \A a \in HeldLists : \A e \in ApiRequests(a) : e.properties.url # ReportUrl
  /\ (nextId - 1) + Len(arg) <= result.monitorable

\* C35: no call that the monitor takes to be for the report URL (the string
\* given to fetch or to open(), or a URL object given to fetch) is monitored
\* and no api_request event names the report URL; the events created and the
\* monitored calls still open are never more than the calls the page itself
\* made for other URLs or with a Request object (a URL object to open()) for
\* the report URL, so a report of the tracker makes no event and the chain
\* of sends that one monitored call starts ends.
C35_NoFeedbackLoop ==
  /\ \A i \in DOMAIN arg : arg[i].as # ReportUrl
  /\ \A a \in HeldLists : \A e \in ApiRequests(a) : e.properties.url # ReportUrl
  /\ (nextId - 1) + Len(arg) <= result.monitorable + result.opaque

\* The page has called fetch with the report URL as a string and for another
\* URL; the event of the other call was sent through the monitored fetch and
\* delivered, and nothing is left open.
C35_Witness ==
  /\ isInitialized
  /\ config.autoTrackApi
  /\ result.requests > result.monitorable
  /\ result.monitorable > 0
  /\ result.opaque = 0
  /\ delivered # {}
  /\ arg = <<>>
  /\ inflight = {}
  /\ eventQueue = <<>>

-----------------------------------------------------------------------------
(* Conservation of events *)

\* C36: while no unload signal has been handled (the store of this
\* specification does not fault), every accepted event is in exactly one
\* place: once in the pending queue, or in one batch in flight, or once in
\* the overflow, or delivered.
C36_Conservation ==
  teardowns = 0 =>
    /\ \A id \in 1..(nextId - 1) : Copies(id) = 1
    /\ \A f \in inflight : NoDuplicates(f.batch)

\* With no unload signal handled, one event has been delivered, one is in
\* the overflow after its report failed, and one is pending or in flight.
C36_Witness ==
  /\ teardowns = 0
  /\ store.faults = {}
  /\ delivered # {}
  /\ \E i \in DOMAIN Overflow : handed[Overflow[i].id] > 0
  /\ eventQueue # <<>> \/ inflight # {}

-----------------------------------------------------------------------------
(* No stranded events in batch mode *)

\* C37: whenever the tracker is running in batch mode with a pending queue
\* that is not empty (between two handlers), a batch timer or a restore timer
\* is pending.
C37_NoStrandedEvents ==
  Running /\ config.reportMethod = BATCH /\ eventQueue # <<>> =>
    BatchTimers \cup RestoreTimers # {}

-----------------------------------------------------------------------------
(* Both unload signals *)

\* C38: when beforeunload and pagehide are both handled during one unload,
\* with nothing in between, the second handler sends no beacon and the
\* overflow afterwards holds no event twice.
C38_OneTeardownOneCopy ==
  constructed /\ teardowns = 0 /\ NoDuplicates(Overflow \o eventQueue) =>
    \A first, second \in BOOLEAN :
      LET r1 == [handleBeforeUnload(Cur, first) EXCEPT !.beaconReport = <<>>]
          r2 == handleBeforeUnload(r1, second)
      IN  /\ r2.beaconReport = <<>>
          /\ NoDuplicates(getPendingEvents(r2.store))

-----------------------------------------------------------------------------
(* Session id coherence (specification SpecBuffer) *)

\* C39: over a store that does not fault, once the StorageManager is
\* constructed the session id in memory is the one in the store, after every
\* operation of the buffer.
C39_SessionCoherence ==
  constructed /\ store.faults = {} =>
    getItem(store, SESSION_ID) = <<sessionId>>

-----------------------------------------------------------------------------
(* The dedup pointer of the collector (specification SpecDedup) *)

\* The collector hands a page view to its callback in the step to r.
Emitted(r) == r.nextId = nextId + 1 \/ r.ignored

\* C40: a page view of the collector is discarded exactly when the URL is
\* that of the pointer and less than 100 ms have passed since the time of
\* the pointer; a discarded page view changes nothing, the pointer included,
\* and an emitted one moves the pointer to its own URL and time.
C40_DedupPointer ==
  LET r == collector_trackPageView(Cur)
  IN  IF lastPageViewUrl = href /\ now - lastPageViewTime < 100
      THEN r = Cur
      ELSE /\ Emitted(r)
           /\ r.lastPageViewUrl = href
           /\ r.lastPageViewTime = now
           /\ r.nextId > nextId =>
                /\ r.eventQueue[Len(r.eventQueue)].eventType = PAGE_VIEW
                /\ r.eventQueue[Len(r.eventQueue)].timestamp = now
                /\ r.eventQueue[Len(r.eventQueue)].pageUrl = href

\* The only page view accepted is one of the start URL exactly 100 ms after
\* the page view of the page load, and the pointer is on it.
C40_Witness ==
  /\ isInitialized
  /\ nextId = 2
  /\ Len(eventQueue) = 1
  /\ eventQueue[1].eventType = PAGE_VIEW
  /\ eventQueue[1].pageUrl = StartUrl
  /\ eventQueue[1].timestamp = PageLoadTime + 100
  /\ lastPageViewUrl = StartUrl
  /\ lastPageViewTime = PageLoadTime + 100

====
